---- MODULE Spec2Model ----
(***************************************************************************)
(* Federated-averaging clients (aijack/collaborative/fedavg/client.py) and *)
(* the Paillier tensor wrapper (aijack/defense/paillier/torch_wrapper.py). *)
(*                                                                         *)
(* The model is a linear layer: its parameters are ParamNames, in order,   *)
(* and each parameter is one integer (a one-element tensor).  A state dict *)
(* is the sequence of the values in parameter order, entry i being the     *)
(* value under the key ParamNames[i].  Real arithmetic is exact integer    *)
(* arithmetic: the learning rate is an integer above 1 and every parameter *)
(* value is a multiple of it, so (prev - param) / lr is exact.             *)
(***************************************************************************)
EXTENDS Integers, Sequences, FiniteSets, TLC

ParamNames == <<"weight", "bias">>
NParams == Len(ParamNames)
MaxVal == 1
MaxSteps == 2

LrValues == {2, 3}
OptimizerTypes == {"sgd", "adam", "none", "bogus"}
AllowedOptimizerTypes == {"sgd", "adam", "none"}

VARIABLES
    status,                   \* "new" | "constructed" | "failed" (of the FedAvgClient(...) call)
    attrs,                    \* attributes assigned on the client object so far
    cfg,                      \* the constructor arguments
    params,                   \* self.model.parameters(), in order
    prev_parameters,          \* self.prev_parameters
    initialized,              \* self.initialized
    optimizer_for_gloal_grad, \* self.optimizer_for_gloal_grad
    round_start,              \* the parameters as construction or the last completed download left them
    last,                     \* the last call: its name, argument, branch, exception and return value
    gradients,                \* MPIFedAVGClient: self.gradients
    inbox,                    \* messages sent to the client and not yet received, oldest first
    outbox,                   \* messages the client sent and the receiver has not yet taken
    rounds,                   \* broadcasts sent, downloads returned, and the parity of the upload_gradient calls
    pt,                       \* PaillierTensor: self._paillier_np_array
    pt_last                   \* the last operation on the tensor: its operand and its outcome

client_vars == <<status, attrs, cfg, params, prev_parameters, initialized,
                 optimizer_for_gloal_grad, round_start, last>>
mpi_vars == <<gradients, inbox, outbox, rounds>>
pt_vars == <<pt, pt_last>>
vars == <<client_vars, mpi_vars, pt_vars>>

Values(lr) == {lr * k : k \in (0 - MaxVal)..MaxVal}
Idx == 1..NParams
Min(a, b) == IF a < b THEN a ELSE b
Sign(x) == IF x > 0 THEN 1 ELSE IF x < 0 THEN 0 - 1 ELSE 0
InRange(s, lr) == \A i \in 1..Len(s) : s[i] \in Values(lr)

Configs ==
    [lr : LrValues, send_gradient : BOOLEAN, server_side_update : BOOLEAN,
     optimizer_type : OptimizerTypes]

NoOptimizer == [kind |-> "unset", lr |-> 0, t |-> 0]
NoneOptimizer == [kind |-> "None", lr |-> 0, t |-> 0]
\* op: the call; arg: its argument; path: the branch it took; err: the
\* exception it raised; ret: its return value; drift: whether the model had
\* moved away from the snapshot when it was called; after, loaded: for an
\* upload, the call right before it and the state that call loaded.
NoCall == [op |-> "none", arg |-> <<>>, path |-> "none", err |-> "none",
           ret |-> <<>>, drift |-> FALSE, after |-> "none", loaded |-> <<>>]

\* Python exceptions and the error names the documentation uses for them
UnsupportedOptimizer == "NotImplementedError"
ShapeMismatch == "RuntimeError"
AttributeError == "AttributeError"

(***************************************************************************)
(* Optimizer adapters (aijack/collaborative/optimizer): SGD with its       *)
(* default hyperparameters (no momentum, no weight decay) and Adam with    *)
(* betas (0, 0) and eps -> 0, for which the bias-corrected update is       *)
(* lr * sign(grad).  Both walk the bound parameters and the update         *)
(* pairwise and count their steps.                                         *)
(***************************************************************************)
StepParam(kind, lr, p, g) ==
    IF kind = "SGDFLOptimizer" THEN p - lr * g ELSE p - lr * Sign(g)

Step(opt, ps, grads) ==
    [i \in 1..Len(ps) |->
        IF i <= Len(grads) THEN StepParam(opt.kind, opt.lr, ps[i], grads[i]) ELSE ps[i]]

\* Mutant: an unknown optimizer type falls through to "no optimizer"
SetupOptimizerLenient(optimizer_type, lr) ==
    IF optimizer_type = "sgd"
    THEN [raised |-> FALSE, opt |-> [kind |-> "SGDFLOptimizer", lr |-> lr, t |-> 0]]
    ELSE IF optimizer_type = "adam"
    THEN [raised |-> FALSE, opt |-> [kind |-> "AdamFLOptimizer", lr |-> lr, t |-> 0]]
    ELSE [raised |-> FALSE, opt |-> NoneOptimizer]

\* FedAvgClient._setup_optimizer_for_global_grad
SetupOptimizerForGlobalGrad(optimizer_type, lr) ==
    IF optimizer_type = "sgd"
    THEN [raised |-> FALSE, opt |-> [kind |-> "SGDFLOptimizer", lr |-> lr, t |-> 0]]
    ELSE IF optimizer_type = "adam"
    THEN [raised |-> FALSE, opt |-> [kind |-> "AdamFLOptimizer", lr |-> lr, t |-> 0]]
    ELSE IF optimizer_type = "none"
    THEN [raised |-> FALSE, opt |-> NoneOptimizer]
    ELSE [raised |-> TRUE, opt |-> NoOptimizer]

\* copy.deepcopy of every parameter
Snapshot(ps) == [i \in 1..Len(ps) |-> ps[i]]

\* Mutant: download keeps the snapshot it had
ResnapshotKeepsOld(ps, old) == old

\* The end of download: the old snapshot is dropped, a new one is taken
Resnapshot(ps, old) == Snapshot(ps)

\* Mutant: the last key of the state dict is not copied
LoadStateDictSkipsLast(ps, sd) ==
    [params |-> [i \in 1..Len(ps) |-> IF i <= Len(sd) /\ i < Len(ps) THEN sd[i] ELSE ps[i]],
     raised |-> Len(sd) # Len(ps)]

\* torch.nn.Module.load_state_dict (strict): every key that is present is
\* copied into its parameter, then missing or unexpected keys raise.
LoadStateDict(ps, sd) ==
    [params |-> [i \in 1..Len(ps) |-> IF i <= Len(sd) THEN sd[i] ELSE ps[i]],
     raised |-> Len(sd) # Len(ps)]

\* FedAvgClient.upload_parameters
UploadParameters(ps) == ps

\* Mutant: the difference is not divided by the learning rate
UploadGradientsUnscaled(ps, prev, lr) ==
    [i \in 1..Min(Len(ps), Len(prev)) |-> prev[i] - ps[i]]

\* FedAvgClient.upload_gradients
UploadGradients(ps, prev, lr) ==
    [i \in 1..Min(Len(ps), Len(prev)) |-> (prev[i] - ps[i]) \div lr]

\* Mutant: the snapshot is written back in the wrong order
RevertMisaligned(ps, prev) == [i \in 1..Len(ps) |-> prev[Len(prev) + 1 - i]]

\* FedAvgClient.revert: the loop rebinds its local name, the model is untouched
Revert(ps, prev) == ps

(***************************************************************************)
(* FedAvgClient.__init__                                                   *)
(***************************************************************************)
BaseAttrs == {"model", "user_id", "lr", "send_gradient", "server_side_update", "device"}

\* Mutant: the optimizer type is never checked
ConstructNeverRaises(c) == FALSE

ConstructRaises(c) ==
    /\ ~c.server_side_update
    /\ SetupOptimizerForGlobalGrad(c.optimizer_type, c.lr).raised

Construct ==
    /\ status = "new"
    /\ IF ConstructRaises(cfg)
       THEN /\ status' = "failed"
            /\ attrs' = BaseAttrs
            /\ last' = [NoCall EXCEPT !.op = "init", !.err = UnsupportedOptimizer]
            /\ UNCHANGED <<prev_parameters, initialized, optimizer_for_gloal_grad,
                           round_start>>
       ELSE /\ status' = "constructed"
            /\ IF ~cfg.server_side_update
               THEN /\ optimizer_for_gloal_grad' =
                          SetupOptimizerForGlobalGrad(cfg.optimizer_type, cfg.lr).opt
                    /\ attrs' = BaseAttrs \cup
                          {"optimizer_for_gloal_grad", "prev_parameters", "initialized"}
               ELSE /\ UNCHANGED optimizer_for_gloal_grad
                    /\ attrs' = BaseAttrs \cup {"prev_parameters", "initialized"}
            /\ prev_parameters' = Snapshot(params)
            /\ initialized' = FALSE
            /\ round_start' = params
            /\ last' = [NoCall EXCEPT !.op = "init"]
    /\ UNCHANGED <<cfg, params, mpi_vars, pt_vars>>

(***************************************************************************)
(* Local training by the external trainer: the parameters move in place.  *)
(***************************************************************************)
Train ==
    /\ status = "constructed"
    /\ \E ps \in [Idx -> Values(cfg.lr)] :
          /\ ps # params
          /\ params' = ps
    /\ last' = [NoCall EXCEPT !.op = "train"]
    /\ UNCHANGED <<status, attrs, cfg, prev_parameters, initialized,
                   optimizer_for_gloal_grad, round_start, mpi_vars, pt_vars>>

(***************************************************************************)
(* FedAvgClient.upload                                                     *)
(***************************************************************************)
\* Mutant: upload takes a new snapshot after computing the delta
UploadResnapshots ==
    /\ status = "constructed"
    /\ last' = [NoCall EXCEPT
                  !.op = "upload",
                  !.path = IF cfg.send_gradient THEN "gradients" ELSE "parameters",
                  !.ret = IF cfg.send_gradient
                          THEN UploadGradients(params, prev_parameters, cfg.lr)
                          ELSE UploadParameters(params),
                  !.drift = (params # prev_parameters),
                  !.after = IF last.err = "none" THEN last.op ELSE "failed",
                  !.loaded = IF last.op = "download" /\ last.err = "none"
                             THEN last.arg ELSE <<>>]
    /\ prev_parameters' = Snapshot(params)
    /\ UNCHANGED <<status, attrs, cfg, params, initialized,
                   optimizer_for_gloal_grad, round_start, mpi_vars, pt_vars>>

Upload ==
    /\ status = "constructed"
    /\ last' = [NoCall EXCEPT
                  !.op = "upload",
                  !.path = IF cfg.send_gradient THEN "gradients" ELSE "parameters",
                  !.ret = IF cfg.send_gradient
                          THEN UploadGradients(params, prev_parameters, cfg.lr)
                          ELSE UploadParameters(params),
                  !.drift = (params # prev_parameters),
                  !.after = IF last.err = "none" THEN last.op ELSE "failed",
                  !.loaded = IF last.op = "download" /\ last.err = "none"
                             THEN last.arg ELSE <<>>]
    /\ UNCHANGED <<status, attrs, cfg, params, prev_parameters, initialized,
                   optimizer_for_gloal_grad, round_start, mpi_vars, pt_vars>>

(***************************************************************************)
(* FedAvgClient.download                                                   *)
(***************************************************************************)
\* The payloads of a download: one entry per parameter, or one entry too few
\* or too many (all of them x).  A payload that is loaded is a parameter
\* state, one that is handed to the optimizer is a global gradient.
Malformed(x) == {[i \in 1..n |-> x] : n \in {NParams - 1, NParams + 1}}
GlobalStates(lr) == [Idx -> {0 - lr, 0, lr}] \cup Malformed(lr)
GlobalGradients == [Idx -> {0 - 1, 0, 1}] \cup Malformed(1)

\* Mutant: the flag is flipped by every download
InitializedToggled(flag) == ~flag

\* download: if not self.initialized: self.initialized = True
InitializedAfterDownload(flag) == IF ~flag THEN TRUE ELSE flag

\* Mutant: no bootstrap rule, only the update mode selects the branch
DownloadLoadsNoBootstrap == cfg.server_side_update

\* the condition of the first branch of download
DownloadLoads == cfg.server_side_update \/ ~initialized

\* Mutant: the flag is set before the state is loaded
DownloadLoadFlagFirst(S) ==
    LET r == LoadStateDict(params, S) IN
    /\ DownloadLoads
    /\ params' = r.params
    /\ initialized' = InitializedAfterDownload(initialized)
    /\ IF r.raised
       THEN /\ last' = [NoCall EXCEPT !.op = "download", !.arg = S, !.path = "load",
                                      !.err = ShapeMismatch,
                                      !.drift = (params # prev_parameters)]
            /\ UNCHANGED <<prev_parameters, round_start>>
       ELSE /\ last' = [NoCall EXCEPT !.op = "download", !.arg = S, !.path = "load",
                                      !.drift = (params # prev_parameters)]
            /\ prev_parameters' = Resnapshot(r.params, prev_parameters)
            /\ round_start' = r.params
    /\ UNCHANGED optimizer_for_gloal_grad

DownloadLoad(S) ==
    LET r == LoadStateDict(params, S) IN
    /\ DownloadLoads
    /\ params' = r.params
    /\ IF r.raised
       THEN /\ last' = [NoCall EXCEPT !.op = "download", !.arg = S, !.path = "load",
                                      !.err = ShapeMismatch,
                                      !.drift = (params # prev_parameters)]
            /\ UNCHANGED <<initialized, prev_parameters, round_start>>
       ELSE /\ last' = [NoCall EXCEPT !.op = "download", !.arg = S, !.path = "load",
                                      !.drift = (params # prev_parameters)]
            /\ initialized' = InitializedAfterDownload(initialized)
            /\ prev_parameters' = Resnapshot(r.params, prev_parameters)
            /\ round_start' = r.params
    /\ UNCHANGED optimizer_for_gloal_grad

DownloadStep(S) ==
    LET reverted == Revert(params, prev_parameters)
        opt == optimizer_for_gloal_grad
    IN
    /\ ~DownloadLoads
    /\ IF opt.kind = "None"
       THEN /\ params' = reverted
            /\ last' = [NoCall EXCEPT !.op = "download", !.arg = S, !.path = "step",
                                      !.err = AttributeError,
                                      !.drift = (params # prev_parameters)]
            /\ UNCHANGED <<initialized, prev_parameters, optimizer_for_gloal_grad,
                           round_start>>
       ELSE /\ opt.t < MaxSteps
            /\ InRange(Step(opt, reverted, S), cfg.lr)
            /\ params' = Step(opt, reverted, S)
            /\ optimizer_for_gloal_grad' = [opt EXCEPT !.t = opt.t + 1]
            /\ last' = [NoCall EXCEPT !.op = "download", !.arg = S, !.path = "step",
                                      !.drift = (params # prev_parameters)]
            /\ initialized' = InitializedAfterDownload(initialized)
            /\ prev_parameters' = Resnapshot(Step(opt, reverted, S), prev_parameters)
            /\ round_start' = Step(opt, reverted, S)

Download ==
    /\ status = "constructed"
    /\ \/ \E S \in GlobalStates(cfg.lr) : DownloadLoad(S)
       \/ \E S \in GlobalGradients : DownloadStep(S)
    /\ UNCHANGED <<status, attrs, cfg, mpi_vars, pt_vars>>

\* No message-passing client and no encrypted tensor take part
NoMPI == gradients = <<>> /\ inbox = <<>> /\ outbox = <<>> /\ rounds = [sent |-> 0, received |-> 0, uploads |-> 0]
NoTensor == pt = <<>> /\ pt_last = [op |-> "none"]

Init ==
    /\ status = "new"
    /\ attrs = {}
    /\ cfg \in Configs
    /\ params \in [Idx -> Values(cfg.lr)]
    /\ prev_parameters = <<>>
    /\ initialized = FALSE
    /\ optimizer_for_gloal_grad = NoOptimizer
    /\ round_start = <<>>
    /\ last = NoCall
    /\ NoMPI /\ NoTensor

Next == Construct \/ Train \/ Upload \/ Download

Spec == Init /\ [][Next]_vars

TypeOK ==
    /\ status \in {"new", "constructed", "failed"}
    /\ InRange(params, cfg.lr) /\ Len(params) = NParams
    /\ initialized \in BOOLEAN
    /\ status = "constructed" =>
          \A i \in Idx : (prev_parameters[i] - params[i]) % cfg.lr = 0

(***************************************************************************)
(* MPIFedAVGClient over a channel that keeps the messages of one sender    *)
(* and tag in send order.  The aggregator takes the client's messages and  *)
(* broadcasts parameter payloads.                                          *)
(***************************************************************************)
MaxInbox == 2
MaxRounds == 2
GRADIENTS_TAG == "GRADIENTS"
PARAMETERS_TAG == "PARAMETERS"
Destinations == {0, 1}

\* the message-passing client has no modes; its runs scale with lr, so one
\* learning rate stands for all
MPIConfigs ==
    {c \in Configs : /\ c.send_gradient /\ c.server_side_update /\ c.optimizer_type = "none"
                     /\ \A l \in LrValues : c.lr <= l}
MPIAttrs == {"model", "user_id", "comm", "lr", "device", "prev_parameters"}

\* the parameter states of the message-passing runs, and what the aggregator
\* broadcasts: such a state, or one entry too few or too many
MPIStates(lr) == [Idx -> {0, lr}]
Broadcasts(lr) == MPIStates(lr) \cup Malformed(lr)

\* comm.recv(tag=...): the oldest message with the tag
HasMessage(box, tag) == \E i \in 1..Len(box) : box[i].tag = tag
\* Mutant: recv takes the oldest message whatever its tag
FirstIndexAnyTag(box, tag) == 1

FirstIndex(box, tag) ==
    CHOOSE i \in 1..Len(box) :
        /\ box[i].tag = tag
        /\ \A j \in 1..(i - 1) : box[j].tag # tag
Without(box, i) == [j \in 1..(Len(box) - 1) |-> IF j < i THEN box[j] ELSE box[j + 1]]

\* the loop of MPIFedAVGClient.download: zip(parameters, new_parameters)
OverwriteParams(ps, new) ==
    [i \in 1..Len(ps) |-> IF i <= Len(new) THEN new[i] ELSE ps[i]]

InitMPI ==
    /\ status = "constructed"
    /\ attrs = MPIAttrs
    /\ cfg \in MPIConfigs
    /\ params \in MPIStates(cfg.lr)
    /\ prev_parameters = Snapshot(params)
    /\ initialized = FALSE
    /\ optimizer_for_gloal_grad = NoOptimizer
    /\ round_start = params
    /\ last = NoCall
    /\ NoMPI /\ NoTensor

MPITrain ==
    /\ \E ps \in MPIStates(cfg.lr) :
          /\ ps # params
          /\ params' = ps
    /\ last' = [NoCall EXCEPT !.op = "train"]
    /\ UNCHANGED <<status, attrs, cfg, prev_parameters, initialized,
                   optimizer_for_gloal_grad, round_start, mpi_vars, pt_vars>>

\* MPIFedAVGClient.upload_gradient; the blocking send returns once the
\* receiver has taken the client's previous message
MPIUploadGradient ==
    /\ outbox = <<>>
    /\ \E destination_id \in Destinations :
          /\ gradients' = UploadGradients(params, prev_parameters, cfg.lr)
          /\ outbox' = Append(outbox, [dest |-> destination_id, tag |-> GRADIENTS_TAG,
                                      payload |-> gradients'])
          /\ last' = [NoCall EXCEPT !.op = "upload_gradient", !.arg = <<destination_id>>,
                                    !.drift = (params # prev_parameters)]
    /\ attrs' = attrs \cup {"gradients"}
    /\ rounds' = [rounds EXCEPT !.uploads = (@ + 1) % 2]
    /\ UNCHANGED <<status, cfg, params, prev_parameters, initialized,
                   optimizer_for_gloal_grad, round_start, inbox, pt_vars>>

\* MPIFedAVGClient.download
MPIDownload ==
    /\ HasMessage(inbox, PARAMETERS_TAG)
    /\ LET k == FirstIndex(inbox, PARAMETERS_TAG)
           new_parameters == inbox[k].payload
       IN /\ inbox' = Without(inbox, k)
          /\ params' = OverwriteParams(params, new_parameters)
          /\ round_start' = OverwriteParams(params, new_parameters)
          /\ last' = [NoCall EXCEPT !.op = "download", !.arg = new_parameters,
                                    !.path = "load",
                                    !.drift = (params # prev_parameters)]
    /\ rounds' = [rounds EXCEPT !.received = @ + 1]
    /\ UNCHANGED <<status, attrs, cfg, prev_parameters, initialized,
                   optimizer_for_gloal_grad, gradients, outbox, pt_vars>>

\* the aggregator broadcasts the next parameters; seq numbers its broadcasts
ServerBroadcast ==
    /\ Len(inbox) < MaxInbox
    /\ rounds.sent < MaxRounds
    /\ \E P \in Broadcasts(cfg.lr) :
          inbox' = Append(inbox, [dest |-> 1, tag |-> PARAMETERS_TAG, payload |-> P,
                                  seq |-> rounds.sent + 1])
    /\ rounds' = [rounds EXCEPT !.sent = @ + 1]
    /\ UNCHANGED <<client_vars, gradients, outbox, pt_vars>>

\* another peer addresses a gradient message to the client
PeerSendsGradients ==
    /\ Len(inbox) < MaxInbox
    /\ ~HasMessage(inbox, GRADIENTS_TAG)
    /\ inbox' = Append(inbox, [dest |-> 1, tag |-> GRADIENTS_TAG,
                               payload |-> [i \in Idx |-> 0], seq |-> 0])
    /\ UNCHANGED <<client_vars, gradients, outbox, rounds, pt_vars>>

\* the receiver takes the client's oldest message
ServerReceive ==
    /\ outbox # <<>>
    /\ outbox' = Tail(outbox)
    /\ UNCHANGED <<client_vars, gradients, inbox, rounds, pt_vars>>

NextMPI ==
    \/ MPITrain \/ MPIUploadGradient \/ MPIDownload
    \/ ServerBroadcast \/ PeerSendsGradients \/ ServerReceive

SpecMPI == InitMPI /\ [][NextMPI]_vars

\* C4: at the end of every download of the message-passing client the retained
\* snapshot equals the parameters just loaded, so the next gradient is taken
\* against the state received last and never against an older snapshot.
C4_MPISnapshotFollowsDownload ==
    (last.op = "download" /\ Len(last.arg) = NParams)
        => prev_parameters = last.arg

\* C11: every upload_gradient(destination) sends exactly one message, tagged
\* GRADIENTS, to that destination, carrying the gradients computed in the call
\* and kept as self.gradients; every download takes exactly one PARAMETERS
\* message and no GRADIENTS message, and the k-th download loads the
\* aggregator's k-th broadcast.
C11_OneMessagePerCall ==
    [][/\ rounds'.uploads # rounds.uploads
            => /\ gradients' = UploadGradients(params, prev_parameters, cfg.lr)
               /\ outbox' = Append(outbox, [dest |-> last'.arg[1], tag |-> GRADIENTS_TAG,
                                            payload |-> gradients'])
               /\ last'.op = "upload_gradient"
               /\ inbox' = inbox
       /\ rounds'.received # rounds.received
            => /\ \E k \in 1..Len(inbox) :
                     /\ inbox[k].tag = PARAMETERS_TAG
                     /\ inbox' = Without(inbox, k)
                     /\ inbox[k].seq = rounds'.received
                     /\ last'.arg = inbox[k].payload
               /\ last'.op = "download"
               /\ outbox' = outbox]_vars

C11_Witness ==
    /\ last.op = "download" /\ rounds.received = 2
    /\ HasMessage(inbox, GRADIENTS_TAG)
    /\ Len(outbox) = 1 /\ outbox[1].payload = gradients /\ outbox[1].dest = 1
    /\ \E i \in Idx : gradients[i] # 0

\* C15: a download whose payload has more or fewer entries than the model has
\* parameters fails with ShapeMismatch; it never overwrites a prefix, or
\* ignores the surplus, and returns normally.
C15_MPIShapeMismatchDetected ==
    (last.op = "download" /\ Len(last.arg) # NParams) => last.err = ShapeMismatch

(***************************************************************************)
(* PaillierTensor.  The ciphertexts are those of the Paillier cryptosystem *)
(* with a small key: n = p * q, g = n + 1; the sum of two plaintexts is    *)
(* the product of their ciphertexts and a plaintext multiple is a power,   *)
(* all modulo n * n.  Plaintexts are the integers between -n/2 and n/2.    *)
(***************************************************************************)
MaxPlain == 2
Shape == <<2>>
ArrLen == Shape[1]

PaillierKey == [p |-> 11, q |-> 13]
N == PaillierKey.p * PaillierKey.q
NSquare == N * N
Gcd(a, b) == CHOOSE d \in 1..a : a % d = 0 /\ b % d = 0
                 /\ \A e \in (d + 1)..a : ~(a % e = 0 /\ b % e = 0)
Lambda == ((PaillierKey.p - 1) * (PaillierKey.q - 1))
              \div Gcd(PaillierKey.p - 1, PaillierKey.q - 1)
Mu == CHOOSE x \in 1..(N - 1) : (x * Lambda) % N = 1
\* the secret key handed to decypt and the key of an unrelated key pair
SecretKey == [lambda |-> Lambda, mu |-> Mu]

RECURSIVE PowMod(_, _, _)
PowMod(b, e, m) ==
    IF e = 0 THEN 1 % m
    ELSE LET h == PowMod(b, e \div 2, m)
             sq == (h * h) % m
         IN IF e % 2 = 1 THEN (sq * (b % m)) % m ELSE sq

\* encryption of plaintext m with nonce r
Encrypt(m, r) == ((1 + N * (m % N)) * PowMod(r, N, NSquare)) % NSquare
\* sk.decrypt2float
Decrypt2Float(sk, c) ==
    LET u == PowMod(c, sk.lambda, NSquare)
        m == (((u - 1) \div N) * sk.mu) % N
    IN IF 2 * m > N THEN m - N ELSE m

\* ciphertext + ciphertext, ciphertext + plaintext, ciphertext * plaintext
CtAdd(c, d) == (c * d) % NSquare
CtAddPlain(c, x) == (c * (1 + N * (x % N))) % NSquare
CtMulPlain(c, k) == PowMod(c, k % N, NSquare)

Plain == (0 - MaxPlain)..MaxPlain
Positions == 1..ArrLen
\* the nonces of the tensor's ciphertexts and of an operand's
TensorNonces == <<2, 3>>
OperandNonces == <<5, 7>>
NonceAt(nonces, i) == nonces[((i - 1) % Len(nonces)) + 1]
EncryptArray(ms, nonces) == [i \in 1..Len(ms) |-> Encrypt(ms[i], NonceAt(nonces, i))]

\* the operands of add, sub and mul: python scalars, plaintext tensors,
\* encrypted tensors and a value of another type
\* the entries of the array operands: the least plaintext, zero and one
OperandPlain == {0 - MaxPlain, 0, 1}
Operands ==
    [type : {"int", "float"}, val : Plain]
    \cup {[type |-> "Tensor", val |-> ms] : ms \in [Positions -> OperandPlain]}
    \cup {[type |-> "PaillierTensor", val |-> EncryptArray(ms, OperandNonces)] :
             ms \in [Positions -> OperandPlain]}
    \cup {[type |-> "str", val |-> 0], [type |-> "OtherWrapper", val |-> 0]}

\* PaillierTensor.decypt
Decypt(array, sk) == [i \in 1..Len(array) |-> Decrypt2Float(sk, array[i])]

Returned(array) == [kind |-> "PaillierTensor", val |-> array]
Raised(exception) == [kind |-> exception, val |-> <<>>]

\* PaillierTensor.add
Add(input, other) ==
    IF other.type \in {"int", "float"}
    THEN Returned([i \in 1..Len(input) |-> CtAddPlain(input[i], other.val)])
    ELSE IF other.type = "Tensor"
    THEN Returned([i \in 1..Len(input) |-> CtAddPlain(input[i], other.val[i])])
    ELSE IF other.type = "PaillierTensor"
    THEN Returned([i \in 1..Len(input) |-> CtAdd(input[i], other.val[i])])
    ELSE Raised("NotImplementedError")

\* Mutant: a scalar operand is added without negation
SubScalarUnnegated(input, other) ==
    IF other.type \in {"int", "float"}
    THEN Returned([i \in 1..Len(input) |-> CtAddPlain(input[i], other.val)])
    ELSE IF other.type = "Tensor"
    THEN Returned([i \in 1..Len(input) |-> CtAddPlain(input[i], (0 - 1) * other.val[i])])
    ELSE IF other.type = "PaillierTensor"
    THEN Returned([i \in 1..Len(input) |->
                      CtAdd(input[i], CtMulPlain(other.val[i], 0 - 1))])
    ELSE Raised("NotImplementedError")

\* Mutant: the operand is added, not its negation
SubWithoutNegation(input, other) == Add(input, other)

\* PaillierTensor.sub
Sub(input, other) ==
    IF other.type \in {"int", "float"}
    THEN Returned([i \in 1..Len(input) |-> CtAddPlain(input[i], (0 - 1) * other.val)])
    ELSE IF other.type = "Tensor"
    THEN Returned([i \in 1..Len(input) |-> CtAddPlain(input[i], (0 - 1) * other.val[i])])
    ELSE IF other.type = "PaillierTensor"
    THEN Returned([i \in 1..Len(input) |->
                      CtAdd(input[i], CtMulPlain(other.val[i], 0 - 1))])
    ELSE Raised("NotImplementedError")

\* PaillierTensor.mul; the cryptosystem has no product of two ciphertexts
Mul(input, other) ==
    IF other.type \in {"int", "float"}
    THEN Returned([i \in 1..Len(input) |-> CtMulPlain(input[i], other.val)])
    ELSE IF other.type = "Tensor"
    THEN Returned([i \in 1..Len(input) |-> CtMulPlain(input[i], other.val[i])])
    ELSE IF other.type = "PaillierTensor"
    THEN Raised("TypeError")
    ELSE Raised("NotImplementedError")

NoClient ==
    /\ status = "new" /\ attrs = {}
    /\ cfg = [lr |-> 2, send_gradient |-> TRUE, server_side_update |-> TRUE,
              optimizer_type |-> "sgd"]
    /\ params = <<>> /\ prev_parameters = <<>> /\ initialized = FALSE
    /\ optimizer_for_gloal_grad = NoOptimizer /\ round_start = <<>> /\ last = NoCall

InitPaillier ==
    /\ NoClient /\ NoMPI
    /\ pt \in {EncryptArray(ms, TensorNonces) : ms \in [Positions -> Plain]}
    /\ pt_last = [op |-> "none"]

\* the functions registered with implements(...)
HANDLED_FUNCTIONS == {"add", "sub", "mul"}
Handler(func, input, other) ==
    CASE func = "add" -> Add(input, other)
      [] func = "sub" -> Sub(input, other)
      [] func = "mul" -> Mul(input, other)

\* the types torch passes to __torch_function__: those of the arguments that
\* define it; the ones the check of __torch_function__ lets through
OverridingTypes == {"Tensor", "PaillierTensor", "OtherWrapper"}
TensorLikeTypes == {"Tensor", "PaillierTensor"}
TypesOf(other) == {"PaillierTensor"} \cup ({other.type} \cap OverridingTypes)
NotImplemented == [kind |-> "NotImplemented", val |-> <<>>]

\* Mutant: the argument types are not looked at
TorchFunctionUnchecked(func, types, input, other) ==
    IF func \notin HANDLED_FUNCTIONS
    THEN NotImplemented
    ELSE Handler(func, input, other)

\* PaillierTensor.__torch_function__
TorchFunction(func, types, input, other) ==
    IF func \notin HANDLED_FUNCTIONS \/ ~(\A t \in types : t \in TensorLikeTypes)
    THEN NotImplemented
    ELSE Handler(func, input, other)

\* an operation is reached through torch (tensor + other, torch.add(tensor,
\* other)) or called as the function PaillierTensor.add(tensor, other)
Vias == {"torch", "function"}
Outcome(func, via, input, other) ==
    IF via = "torch"
    THEN TorchFunction(func, TypesOf(other), input, other)
    ELSE Handler(func, input, other)

\* Mutant: the sum is stored into the instance
PTAddInPlace ==
    /\ \E other \in Operands, via \in Vias :
          LET result == Outcome("add", via, pt, other)
          IN /\ pt_last' = [op |-> "add", via |-> via, other |-> other, result |-> result]
             /\ pt' = IF result.kind = "PaillierTensor" THEN result.val ELSE pt
    /\ UNCHANGED <<client_vars, mpi_vars>>

PTAdd ==
    /\ \E other \in Operands, via \in Vias :
          pt_last' = [op |-> "add", via |-> via, other |-> other,
                      result |-> Outcome("add", via, pt, other)]
    /\ UNCHANGED <<client_vars, mpi_vars, pt>>

PTSub ==
    /\ \E other \in Operands, via \in Vias :
          pt_last' = [op |-> "sub", via |-> via, other |-> other,
                      result |-> Outcome("sub", via, pt, other)]
    /\ UNCHANGED <<client_vars, mpi_vars, pt>>

PTMul ==
    /\ \E other \in Operands, via \in Vias :
          pt_last' = [op |-> "mul", via |-> via, other |-> other,
                      result |-> Outcome("mul", via, pt, other)]
    /\ UNCHANGED <<client_vars, mpi_vars, pt>>

\* torch.div(tensor, other): no function is registered for it
PTDiv ==
    /\ \E other \in Operands :
          pt_last' = [op |-> "div", via |-> "torch", other |-> other,
                      result |-> TorchFunction("div", TypesOf(other), pt, other)]
    /\ UNCHANGED <<client_vars, mpi_vars, pt>>

PTDecypt ==
    /\ pt_last' = [op |-> "decypt", via |-> "method", other |-> [type |-> "key", val |-> 0],
                   result |-> [kind |-> "Tensor", val |-> Decypt(pt, SecretKey)]]
    /\ UNCHANGED <<client_vars, mpi_vars, pt>>

\* PaillierTensor.tensor
PTTensor ==
    /\ \E sk \in {"None", "key"} :
          pt_last' = [op |-> "tensor", via |-> "method", other |-> [type |-> sk, val |-> 0],
                      result |-> [kind |-> "Tensor",
                                  val |-> IF sk # "None" THEN Decypt(pt, SecretKey)
                                          ELSE [i \in 1..Len(pt) |-> 0]]]
    /\ UNCHANGED <<client_vars, mpi_vars, pt>>

\* PaillierTensor.numpy
PTNumpy ==
    /\ pt_last' = [op |-> "numpy", via |-> "method", other |-> [type |-> "None", val |-> 0],
                   result |-> [kind |-> "ndarray", val |-> pt]]
    /\ UNCHANGED <<client_vars, mpi_vars, pt>>

NextPaillier == PTAdd \/ PTSub \/ PTMul \/ PTDiv \/ PTDecypt \/ PTTensor \/ PTNumpy

SpecPaillier == InitPaillier /\ [][NextPaillier]_vars

\* C10: under one key, decrypt(add(A, B)) = decrypt(A) + decrypt(B),
\* decrypt(sub(A, B)) = decrypt(A) - decrypt(B) and decrypt(mul(A, k)) =
\* k * decrypt(A), elementwise, for encrypted arrays A, B of equal shape and
\* plaintext scalars k.
C10_Homomorphism ==
    LET a == Decypt(pt, SecretKey)
        other == pt_last.other
        out == Decypt(pt_last.result.val, SecretKey)
    IN /\ (pt_last.op = "add" /\ other.type = "PaillierTensor")
            => /\ pt_last.result.kind = "PaillierTensor"
               /\ out = [i \in Positions |-> a[i] + Decypt(other.val, SecretKey)[i]]
       /\ (pt_last.op = "sub" /\ other.type = "PaillierTensor")
            => /\ pt_last.result.kind = "PaillierTensor"
               /\ out = [i \in Positions |-> a[i] - Decypt(other.val, SecretKey)[i]]
       /\ (pt_last.op = "mul" /\ other.type \in {"int", "float"})
            => /\ pt_last.result.kind = "PaillierTensor"
               /\ out = [i \in Positions |-> other.val * a[i]]

\* Enc(2) - Enc(1) decrypts to 1 and Enc(1) - Enc(-2) to 3
C10_Witness ==
    /\ pt_last.op = "sub" /\ pt_last.other.type = "PaillierTensor"
    /\ Decypt(pt, SecretKey) = <<2, 1>>
    /\ Decypt(pt_last.other.val, SecretKey) = <<1, 0 - 2>>
    /\ Decypt(pt_last.result.val, SecretKey) = <<1, 3>>
    /\ pt_last.result.val # pt

(***************************************************************************)
(* Properties of the single-process client, checked under Spec.           *)
(***************************************************************************)
Zeros == [i \in Idx |-> 0]
StepDownload ==
    /\ status = "constructed" /\ ~cfg.server_side_update /\ initialized
    /\ last'.op = "download"

\* C1: in client-applied-update mode and state Ready, download(delta) leaves
\* the model equal to the optimizer's step(delta) applied to the retained
\* snapshot: local training since the snapshot is reverted before the step.
C1_DriftDiscarded ==
    [][(StepDownload /\ Len(last'.arg) = NParams /\ last'.err = "none")
         => params' = Step(optimizer_for_gloal_grad, prev_parameters, last'.arg)]_vars

\* C2: the first download of a freshly constructed client, in either update
\* mode, loads the given state into every parameter without invoking the
\* optimizer step and moves the client from Uninitialized to Ready.
C2_BootstrapLoads ==
    [][(status = "constructed" /\ ~initialized /\ last'.op = "download"
          /\ Len(last'.arg) = NParams)
         => /\ params' = last'.arg
            /\ initialized'
            /\ last'.path = "load" /\ last'.err = "none"
            /\ optimizer_for_gloal_grad' = optimizer_for_gloal_grad]_vars

C2_Witness ==
    /\ last.op = "download" /\ last.path = "load" /\ last.err = "none"
    /\ ~cfg.server_side_update /\ cfg.optimizer_type = "sgd"
    /\ initialized /\ optimizer_for_gloal_grad.t = 0
    /\ params = last.arg /\ last.drift

\* C3: upload_gradients returns one entry per parameter, in order, entry i
\* being (snapshot_i - current_i) / lr, the snapshot being the value the
\* parameter had at construction or at the end of the last completed
\* download; so current_i + lr * gradient_i = snapshot_i.
C3_GradientConsistency ==
    (last.op = "upload" /\ last.path = "gradients")
        => /\ Len(last.ret) = NParams
           /\ \A i \in Idx : params[i] + cfg.lr * last.ret[i] = round_start[i]

C3_Witness ==
    /\ last.op = "upload" /\ last.path = "gradients"
    /\ initialized /\ last.drift
    /\ \A i \in Idx : last.ret[i] # 0

\* C5: right after every successful download, in both update modes, the
\* snapshot has one entry per parameter and equals the live parameters, so
\* upload_gradients would return all zeros.
C5_SnapshotRefreshed ==
    (status = "constructed" /\ last.op = "download" /\ last.err = "none")
        => /\ Len(prev_parameters) = Len(params)
           /\ prev_parameters = params
           /\ UploadGradients(params, prev_parameters, cfg.lr) = Zeros

C5_Witness ==
    /\ last.op = "download" /\ last.err = "none" /\ last.drift
    /\ last.path = "step" /\ prev_parameters = params /\ params # Zeros

\* C6: with send_gradient=False and server_side_update=True, download(S)
\* immediately followed by upload() returns exactly S.
C6_RoundTrip ==
    (last.op = "upload" /\ last.after = "download" /\ last.loaded # <<>>
       /\ cfg.server_side_update /\ ~cfg.send_gradient)
        => last.ret = last.loaded

C6_Witness ==
    /\ last.op = "upload" /\ last.after = "download"
    /\ cfg.server_side_update /\ ~cfg.send_gradient
    /\ last.ret = last.loaded /\ Len(last.loaded) = NParams
    /\ \A i \in Idx : last.ret[i] # 0

\* C7: download with a global state whose length differs from the number of
\* parameters fails with ShapeMismatch and leaves every parameter unchanged.
C7_ShapeMismatchDetected ==
    [][(status = "constructed" /\ last'.op = "download" /\ Len(last'.arg) # NParams)
         => (last'.err = ShapeMismatch /\ params' = params)]_vars

\* C8: constructing with server_side_update=False and an optimizer type
\* outside {sgd, adam, none} fails with UnsupportedOptimizer before any
\* parameter is mutated and before the snapshot or the initialized flag exist.
C8_UnsupportedOptimizerRejected ==
    [][(status = "new" /\ ~cfg.server_side_update
          /\ cfg.optimizer_type \notin AllowedOptimizerTypes /\ last'.op = "init")
         => /\ status' = "failed" /\ last'.err = UnsupportedOptimizer
            /\ params' = params
            /\ "prev_parameters" \notin attrs' /\ "initialized" \notin attrs'
            /\ prev_parameters' = <<>> /\ round_start' = <<>>]_vars

C8_Witness ==
    /\ status = "failed" /\ last.op = "init" /\ last.err = UnsupportedOptimizer
    /\ ~cfg.server_side_update /\ cfg.optimizer_type = "bogus"
    /\ attrs = BaseAttrs

\* C9 as stated: whatever server_side_update is, no client with an optimizer
\* type outside {sgd, adam, none} is ever created.
C9_AlwaysRejected ==
    cfg.optimizer_type \notin AllowedOptimizerTypes => status # "constructed"

\* C9 as amended: construction fails with UnsupportedOptimizer exactly when
\* server_side_update is False and the optimizer type is outside {sgd, adam,
\* none}; with server_side_update=True the type is not looked at.
C9_RejectedWhenClientSide ==
    status # "new"
        => /\ status = "failed"
               <=> (~cfg.server_side_update
                      /\ cfg.optimizer_type \notin AllowedOptimizerTypes)
           /\ status = "failed" => last.err = UnsupportedOptimizer

C9_Witness ==
    /\ status = "constructed" /\ cfg.server_side_update
    /\ cfg.optimizer_type = "bogus" /\ initialized

\* C12: the client never returns to Uninitialized: initialized is False from
\* construction until the first successful download, True ever after, and no
\* upload, training step or later download, failing or not, resets it.
C12_NeverUninitializedAgain ==
    [][/\ initialized => initialized'
       /\ (status = "constructed" /\ ~initialized /\ initialized')
            => (last'.op = "download" /\ last'.err = "none")
       /\ (status = "constructed" /\ last'.op = "download" /\ last'.err = "none")
            => initialized']_vars

C12_Witness ==
    /\ initialized /\ cfg.server_side_update
    /\ last.op = "download" /\ last.err = ShapeMismatch /\ last.drift

\* C13: in client-applied-update mode, when the parameters are unchanged since
\* the last snapshot, download(delta) does what applying the optimizer's
\* step(delta) to the snapshot does (with no optimizer both raise).
C13_RevertIsNoOpWithoutDrift ==
    [][(StepDownload /\ params = prev_parameters)
         => IF optimizer_for_gloal_grad.kind = "None"
            THEN last'.err = AttributeError /\ params' = prev_parameters
            ELSE /\ last'.err = "none"
                 /\ params' = Step(optimizer_for_gloal_grad, prev_parameters, last'.arg)]_vars

C13_Witness ==
    /\ last.op = "download" /\ last.path = "step" /\ last.err = "none"
    /\ ~last.drift /\ optimizer_for_gloal_grad.t = 2
    /\ Len(last.arg) = NParams /\ \A i \in Idx : last.arg[i] # 0
    /\ params[1] # params[2]

\* C14: upload, in gradient and in parameter mode, changes nothing: model,
\* snapshot, flag and optimizer are as before, and a second upload right
\* after it returns the same delta.
C14_UploadChangesNothing ==
    [][(status = "constructed" /\ last'.op = "upload")
         => /\ UNCHANGED <<status, attrs, cfg, params, prev_parameters, initialized,
                           optimizer_for_gloal_grad>>
            /\ last.op = "upload" => last'.ret = last.ret]_vars

C14_Witness ==
    /\ last.op = "upload" /\ last.after = "upload" /\ last.drift
    /\ initialized /\ \E i \in Idx : last.ret[i] # 0

\* C19: for every optimizer type the constructor accepts with
\* server_side_update=False, a download in state Ready with a well-formed
\* delta completes without error and ends with a refreshed snapshot.
C19_ReadyDownloadCompletes ==
    [][(StepDownload /\ Len(last'.arg) = NParams)
         => (last'.err = "none" /\ prev_parameters' = params')]_vars

\* C20: a download that raises leaves the snapshot and the initialized flag
\* as they were, so after a failed first download the client is still
\* Uninitialized and its next download takes the load branch.
C20_FailedDownloadKeepsState ==
    [][/\ (status = "constructed" /\ last'.op = "download" /\ last'.err # "none")
            => /\ prev_parameters' = prev_parameters
               /\ initialized' = initialized
       /\ (status = "constructed" /\ last.op = "download" /\ last.err # "none"
             /\ ~initialized /\ last'.op = "download")
            => last'.path = "load"]_vars

C20_Witness ==
    /\ last.op = "download" /\ last.err = ShapeMismatch
    /\ ~cfg.server_side_update /\ ~initialized
    /\ params # prev_parameters

(***************************************************************************)
(* Properties of the encrypted tensor, checked under SpecPaillier.         *)
(***************************************************************************)
\* mul(b, -1) for an operand b: the plaintext product, or b's ciphertexts
\* multiplied by the plaintext -1
Negated(other) ==
    IF other.type \in {"int", "float"}
    THEN [other EXCEPT !.val = @ * (0 - 1)]
    ELSE IF other.type = "Tensor"
    THEN [other EXCEPT !.val = [i \in 1..Len(@) |-> @[i] * (0 - 1)]]
    ELSE [other EXCEPT !.val = Mul(@, [type |-> "int", val |-> 0 - 1]).val]

\* C16: for every accepted operand b (scalar, plaintext array, encrypted
\* array) sub(A, b) returns the same underlying array as add(A, mul(b, -1)):
\* subtraction is ciphertext addition of the operand times the plaintext -1.
C16_SubIsAddOfNegation ==
    (pt_last.op = "sub" /\ pt_last.other.type \in {"int", "float", "Tensor", "PaillierTensor"})
        => /\ pt_last.result.kind = "PaillierTensor"
           /\ pt_last.result = Add(pt, Negated(pt_last.other))

C16_Witness ==
    /\ pt_last.op = "sub" /\ pt_last.other.type = "int" /\ pt_last.other.val = 2
    /\ pt_last.result.kind = "PaillierTensor"
    /\ pt_last.result.val # pt
    /\ Decypt(pt_last.result.val, SecretKey) = [i \in Positions |-> Decypt(pt, SecretKey)[i] - 2]

\* C17: add, sub, mul, decypt, tensor and numpy leave the instance's
\* ciphertext array and shape as they were, whatever the sequence of calls,
\* so it keeps decrypting to the same values; add, sub and mul return a new
\* instance of the operand's shape.
C17_OperationsLeaveInstance ==
    [][/\ pt' = pt
       /\ Decypt(pt', SecretKey) = Decypt(pt, SecretKey)
       /\ (pt_last'.op \in {"add", "sub", "mul"} /\ pt_last'.result.kind = "PaillierTensor")
            => Len(pt_last'.result.val) = Len(pt)]_vars

C17_Witness ==
    /\ pt_last.op = "add" /\ pt_last.other.type = "PaillierTensor"
    /\ pt_last.result.kind = "PaillierTensor"
    /\ Len(pt_last.result.val) = ArrLen
    /\ \A i \in Positions : pt_last.result.val[i] # pt[i]

\* C18: add, sub and mul with an operand that is neither a plaintext scalar,
\* a plaintext tensor nor an encrypted array raise NotImplementedError and
\* return nothing; __torch_function__ returns NotImplemented for a function
\* that is not registered and for argument types that include one that is
\* neither a tensor nor the wrapper.
C18_UnsupportedOperandRejected ==
    LET accepted == pt_last.other.type \in {"int", "float", "Tensor", "PaillierTensor"}
        foreign == \E t \in TypesOf(pt_last.other) : t \notin TensorLikeTypes
    IN /\ (pt_last.op \in HANDLED_FUNCTIONS /\ ~accepted
             /\ (pt_last.via = "function" \/ ~foreign))
            => pt_last.result = Raised("NotImplementedError")
       /\ (pt_last.op \in {"add", "sub", "mul", "div"} /\ pt_last.via = "torch"
             /\ (pt_last.op \notin HANDLED_FUNCTIONS \/ foreign))
            => pt_last.result = NotImplemented

C18_Witness ==
    /\ pt_last.op = "mul" /\ pt_last.via = "torch"
    /\ pt_last.other.type = "OtherWrapper"
    /\ pt_last.result.kind = "NotImplemented"

====
